---------------------------- MODULE Spec2Model ----------------------------
(***************************************************************************)
(* A model of the socket core of async-io (src/socket/mod.rs, unix.rs,     *)
(* windows.rs): the address encoder (Addr), the platform socket primitive  *)
(* (sys::Socket: creation, connect, raw-handle extraction, teardown) and   *)
(* the facade Socket with its conversion into the native stream types.     *)
(*                                                                         *)
(* The build target (platform) and the memory layout the standard library  *)
(* gives SocketAddrV4 / SocketAddrV6 (layout) are fixed per behaviour and  *)
(* chosen in Init.  Every native call of Socket::new is one step, so other *)
(* threads, and a thread that forks and execs a child, interleave between  *)
(* the calls exactly as the operating system lets them.                    *)
(***************************************************************************)
EXTENDS Integers, Sequences, FiniteSets, TLC

VARIABLES
    platform,   \* build target: "linux", "bsd", "macos" or "windows"
    layout,     \* memory layout of std's SocketAddrV4/V6 in this build
    handles,    \* kernel table: handle id -> state of the native handle
    nextHandle, \* the id the next successful native creation returns
    pc,         \* per thread: position inside Socket::new
    loc,        \* per thread: locals of Socket::new (fd, flags, arguments)
    owners,     \* the live owning values: Socket, TcpStream, UnixStream
    once,       \* windows: state of the `INIT` Once
    initRuns,   \* windows: how often the body of call_once has run
    wsaStarted, \* windows: winsock is initialised
    inherited,  \* some exec'ed child has inherited a handle of this core
    addr,       \* the Addr value the caller holds (or the error, or none)
    op,         \* the operation whose step was taken last
    trace       \* the native calls that step issued, in order

vars == <<platform, layout, handles, nextHandle, pc, loc, owners, once,
          initRuns, wsaStarted, inherited, addr, op, trace>>

----------------------------------------------------------------------------
(* Bounds of the model.                                                    *)

NumThreads == 2     \* threads calling Socket::new
MaxHandles == 2     \* native handles the kernel hands out in one behaviour
MaxShortPath == 2   \* unix paths of 0..MaxShortPath bytes are tried
PathSlack == 1      \* and of capacity-PathSlack..capacity+PathSlack bytes

Threads == 1..NumThreads
HandleIds == 1..MaxHandles

Platforms == {"linux", "bsd", "macos", "windows"}
IsUnix == platform # "windows"

\* The orders in which a set of fields can be laid out.
FieldOrders(fields) ==
    {o \in [1..Cardinality(fields) -> fields] :
        \A i, j \in DOMAIN o : i # j => o[i] # o[j]}

\* std::net::SocketAddrV4/V6 are repr(Rust): their size and field order are
\* what the standard library and the compiler of the build make them.
\* "c_struct": the value wraps the C sockaddr_in/sockaddr_in6 (std before
\* 1.64); "rust_fields": the value holds the ip, port, flowinfo and scope
\* id as Rust fields (std since 1.64), in an order the compiler chooses
\* (v4, v6).
Layouts ==
    {[kind |-> "c_struct", v4 |-> <<>>, v6 |-> <<>>]}
        \cup {[kind |-> "rust_fields", v4 |-> o4, v6 |-> o6] :
                o4 \in FieldOrders({"ip", "port"}),
                o6 \in FieldOrders({"ip", "port", "flowinfo", "scope"})}

----------------------------------------------------------------------------
(* Native constants and structure sizes (libc / winapi, little endian).    *)

AF_UNIX == 1
AF_INET == 2
AF_INET6 ==
    CASE platform = "linux" -> 10
      [] platform = "macos" -> 30
      [] platform = "bsd" -> 28
      [] OTHER -> 23
SOCK_STREAM == 1
IPPROTO_TCP == 6

\* size_of::<sockaddr>(): what the buffer would hold were it declared as a
\* plain sockaddr.
SockaddrSize == 2 + 14
\* size_of::<sockaddr_storage>(): the capacity of Addr's buffer.
SockaddrStorageSize == 128
\* size_of::<sockaddr_in>() and size_of::<sockaddr_in6>().
SockaddrInSize == 16
SockaddrIn6Size == 28
\* addr.sun_path.len(): 108 on linux, 104 on the BSDs and macOS.
SunPathLen == IF platform = "linux" THEN 108 ELSE 104
\* offset of sun_path in sockaddr_un: sun_family (u16) on linux, sun_len
\* (u8) and sun_family (u8) on the BSDs and macOS.
SunPathOffset == 2
SockaddrUnSize == SunPathOffset + SunPathLen

\* A byte of memory that was never written (MaybeUninit, padding).
Uninit == -1
\* A byte read from beyond the end of the source object.
OutOfBounds == -2

Zeros(n) == [i \in 1..n |-> 0]
LE16(x) == <<x % 256, x \div 256>>
BE16(x) == <<x \div 256, x % 256>>
LE32(x) == <<x % 256, (x \div 256) % 256, (x \div 65536) % 256, x \div 16777216>>
BE32(x) == <<x \div 16777216, (x \div 65536) % 256, (x \div 256) % 256, x % 256>>


\* The family tag at the head of a native address: a u16 in native order on
\* linux and windows, the pair (length byte, family byte) on the BSDs.
FamilyTag(family, size) ==
    IF platform \in {"linux", "windows"} THEN LE16(family) ELSE <<size, family>>

\* The platform's sockaddr_in for an IPv4 endpoint: family, port and address
\* in network order, then sin_zero.
NativeSockaddrIn(e) ==
    FamilyTag(AF_INET, SockaddrInSize) \o BE16(e.port) \o e.ip \o Zeros(8)

\* The platform's sockaddr_in6 for an IPv6 endpoint: family, port in
\* network order, flow information in host order, address, scope id in
\* host order.
NativeSockaddrIn6(e) ==
    FamilyTag(AF_INET6, SockaddrIn6Size) \o BE16(e.port) \o LE32(e.flowinfo)
        \o e.ip \o LE32(e.scope)

\* The alignment of a field of SocketAddrV4/V6 and its bytes in memory: the
\* address octets as they are, the integers in host order.
FieldAlign(f) ==
    CASE f = "ip" -> 1
      [] f = "port" -> 2
      [] OTHER -> 4
FieldBytes(f, e) ==
    CASE f = "ip" -> e.ip
      [] f = "port" -> LE16(e.port)
      [] f = "flowinfo" -> LE32(e.flowinfo)
      [] OTHER -> LE32(e.scope)

\* Padding up to the next multiple of `align`: bytes nothing writes.
Padding(n, align) == [i \in 1..((align - (n % align)) % align) |-> Uninit]

\* The fields of a value, in the given order, each at its alignment.
RECURSIVE FieldsInOrder(_, _, _)
FieldsInOrder(order, e, acc) ==
    IF order = <<>>
    THEN acc
    ELSE LET f == Head(order)
             at == acc \o Padding(Len(acc), FieldAlign(f))
         IN  FieldsInOrder(Tail(order), e, at \o FieldBytes(f, e))

\* The bytes of a SocketAddrV4 value in memory: size_of::<SocketAddrV4>() of
\* them.  Since std 1.64 the value is { ip: [u8; 4], port: u16 }.
SocketAddrV4Bytes(e) ==
    IF layout.kind = "c_struct"
    THEN NativeSockaddrIn(e)
    ELSE LET fields == FieldsInOrder(layout.v4, e, <<>>)
         IN  fields \o Padding(Len(fields), 2)

\* The bytes of a SocketAddrV6 value in memory.  Since std 1.64:
\* { ip: [u8; 16], port: u16, flowinfo: u32, scope_id: u32 } and two bytes
\* of padding.
SocketAddrV6Bytes(e) ==
    IF layout.kind = "c_struct"
    THEN NativeSockaddrIn6(e)
    ELSE LET fields == FieldsInOrder(layout.v6, e, <<>>)
         IN  fields \o Padding(Len(fields), 4)

----------------------------------------------------------------------------
(* Addr: the address encoder (mod.rs 49-113, unix.rs 25-81).               *)

NoAddr == [tag |-> "none"]
InvalidInput(msg) == [tag |-> "err", kind |-> "InvalidInput", msg |-> msg]

\* Addr::from_raw_parts: copy `len` bytes from the source object into a
\* fresh, uninitialised sockaddr_storage and keep `len`.  `copied` is the
\* byte count given to copy_nonoverlapping; `input` remembers what the Addr
\* was made from.
from_raw_parts(src, len, input) ==
    [tag |-> "ok",
     storage |-> [i \in 1..SockaddrStorageSize |->
                    IF i <= len
                    THEN (IF i <= Len(src) THEN src[i] ELSE OutOfBounds)
                    ELSE Uninit],
     len |-> len,
     copied |-> len,
     input |-> input]

\* impl From<SocketAddrV4> for Addr.
AddrFromV4(e) ==
    LET bytes == SocketAddrV4Bytes(e)
    IN  from_raw_parts(bytes, Len(bytes), [kind |-> "v4", e |-> e])

\* impl From<SocketAddrV6> for Addr.
AddrFromV6(e) ==
    LET bytes == SocketAddrV6Bytes(e)
    IN  from_raw_parts(bytes, Len(bytes), [kind |-> "v6", e |-> e])

\* impl From<SocketAddr> for Addr.
AddrFromSocketAddr(a) ==
    IF a.kind = "v4" THEN AddrFromV4(a.e) ELSE AddrFromV6(a.e)

\* A faulty check: an abstract path that fills sun_path exactly is rejected
\* like a pathname (Greater | Equal in both arms).
UnixPathCheckStrict(bytes) ==
    IF Len(bytes) > 0 /\ bytes[1] = 0
    THEN (IF Len(bytes) >= SunPathLen THEN "too_long_abstract" ELSE "ok")
    ELSE (IF Len(bytes) >= SunPathLen THEN "too_long" ELSE "ok")

\* The match on (bytes.get(0), bytes.len().cmp(&addr.sun_path.len())).
UnixPathCheck(bytes) ==
    IF Len(bytes) > 0 /\ bytes[1] = 0
    THEN (IF Len(bytes) > SunPathLen THEN "too_long_abstract" ELSE "ok")
    ELSE (IF Len(bytes) >= SunPathLen THEN "too_long" ELSE "ok")

\* A faulty length: the empty path is counted with a terminator too (the
\* `None` arm missing from the second match).
UnixAddrLenAlwaysTerminated(bytes) ==
    SunPathOffset + Len(bytes) + (IF Len(bytes) > 0 /\ bytes[1] = 0 THEN 0 ELSE 1)

\* The length passed to from_raw_parts: sun_path_offset + bytes.len(), plus
\* one for a path whose first byte exists and is not NUL.
UnixAddrLen(bytes) ==
    SunPathOffset + Len(bytes) + (IF Len(bytes) = 0 \/ bytes[1] = 0 THEN 0 ELSE 1)

\* The zeroed sockaddr_un with sun_family set and the path bytes zipped into
\* sun_path.
SockaddrUn(bytes) ==
    FamilyTag(AF_UNIX, 0)
        \o [i \in 1..SunPathLen |-> IF i <= Len(bytes) THEN bytes[i] ELSE 0]

\* Addr::unix(path).
AddrUnix(bytes) ==
    CASE UnixPathCheck(bytes) = "too_long_abstract" ->
            InvalidInput("path must be no longer than SUN_LEN")
      [] UnixPathCheck(bytes) = "too_long" ->
            InvalidInput("path must be shorter than SUN_LEN")
      [] OTHER ->
            from_raw_parts(SockaddrUn(bytes), UnixAddrLen(bytes),
                           [kind |-> "unix", path |-> bytes])

\* Inputs of the encoder.
V4Endpoints == {[ip |-> <<127, 0, 0, 1>>, port |-> 8080],
                [ip |-> <<10, 1, 2, 3>>, port |-> 443]}
V6Endpoints == {[ip |-> Zeros(15) \o <<1>>, port |-> 8080, flowinfo |-> 0,
                 scope |-> 0],
                [ip |-> [i \in 1..16 |-> 15 + i], port |-> 1286,
                 flowinfo |-> 16909060, scope |-> 168496141]}
SocketAddrs == {[kind |-> "v4", e |-> e] : e \in V4Endpoints}
                \cup {[kind |-> "v6", e |-> e] : e \in V6Endpoints}

\* The endpoint the connect specification connects to.
ConnectAddrs == {[kind |-> "v4", e |-> [ip |-> <<127, 0, 0, 1>>, port |-> 8080]]}
\* The field order rustc gives SocketAddrV4/V6 today, and the layouts with
\* that order of SocketAddrV6.
CurrentOrderV4 == <<"ip", "port">>
CurrentOrderV6 == <<"ip", "flowinfo", "scope", "port">>
\* The layouts the lifecycle runs under: no step of it looks at an address,
\* so the C structures and today's field order stand for all.
LifecycleLayouts ==
    {l \in Layouts :
        l.kind = "rust_fields" => (l.v4 = CurrentOrderV4 /\ l.v6 = CurrentOrderV6)}
\* The layouts connect runs under: every layout of SocketAddrV4, with one
\* order of SocketAddrV6.
ConnectLayouts ==
    {l \in Layouts : l.kind = "rust_fields" => l.v6 = CurrentOrderV6}

PathLens ==
    (0..MaxShortPath) \cup ((SunPathLen - PathSlack)..(SunPathLen + PathSlack))
\* A path of n bytes whose first byte is `first` ('a' = 97 or NUL).
Path(first, n) == [i \in 1..n |-> IF i = 1 THEN first ELSE 98]
Paths == {Path(f, n) : f \in {0, 97}, n \in PathLens}

----------------------------------------------------------------------------
(* The kernel's view of a native handle.                                   *)

FreeHandle ==
    [state |-> "free", fdflags |-> {}, flflags |-> {}, nosigpipe |-> FALSE,
     closes |-> 0]

IsOpen(h) == handles[h].state = "open"
\* A child process started by exec inherits an open handle unless it is
\* close-on-exec (POSIX) or has its inherit flag cleared (windows).
Inheritable(h) ==
    IF platform = "windows"
    THEN "HANDLE_FLAG_INHERIT" \in handles[h].fdflags
    ELSE "FD_CLOEXEC" \notin handles[h].fdflags
NonBlocking(h) ==
    IF platform = "windows"
    THEN "FIONBIO" \in handles[h].flflags
    ELSE "O_NONBLOCK" \in handles[h].flflags

\* One native call as the trace records it.
Call(name, h, ret, err) ==
    [call |-> name, h |-> h, ret |-> ret, err |-> err, bytes |-> <<>>,
     len |-> 0]
ConnectCall(h, a, ret, err) ==
    [call |-> "connect", h |-> h, ret |-> ret, err |-> err,
     bytes |-> a.storage, len |-> a.len]

\* The operation record: which operation stepped, on which handle, and what
\* it returned to its caller ("" while it has not returned).
Op(name, h, result, err) ==
    [name |-> name, h |-> h, result |-> result, err |-> err, arg |-> <<>>]
\* The same for an operation whose argument (a path, an Addr) is kept.
OpArg(name, h, result, err, arg) ==
    [name |-> name, h |-> h, result |-> result, err |-> err, arg |-> arg]

\* An operating-system error code as io::Error::last_os_error() and
\* WSAGetLastError() report it; NoError stands for "no error".
NoError == 0
\* The error codes of the platform: errno 1..133 on linux, 1..106 on macOS,
\* 1..97 on the BSDs; the winsock codes 10004..10112 on windows.
Errnos ==
    CASE platform = "linux" -> 1..133
      [] platform = "macos" -> 1..106
      [] platform = "bsd" -> 1..97
      [] OTHER -> 10004..10112
EIO == IF IsUnix THEN 5 ELSE 10038
EMFILE == IF IsUnix THEN 24 ELSE 10024
EPROTONOSUPPORT ==
    CASE platform = "linux" -> 93
      [] platform = "windows" -> 10043
      [] OTHER -> 43
WSANOTINITIALISED == 10093
\* The codes that mean "not done yet" on a non-blocking handle: EINPROGRESS
\* and EAGAIN (unix), WSAEWOULDBLOCK (windows).
EINPROGRESS ==
    CASE platform = "linux" -> 115
      [] platform = "windows" -> 10035
      [] OTHER -> 36
EAGAIN ==
    CASE platform = "linux" -> 11
      [] platform = "windows" -> 10035
      [] OTHER -> 35

\* ToError::error (unix.rs): -1 is Err(last_os_error()), anything else Ok.
ToError(ret, errno) == IF ret = -1 THEN errno ELSE NoError

NoLoc == [fd |-> 0, flags |-> {}]

\* Protocol argument of Socket::new: protocol.map(|p| p.0).unwrap_or(0).
ProtocolArg(protocol) == IF protocol = "none" THEN 0 ELSE IPPROTO_TCP

\* Domain::ipv4(), Domain::ipv6() and, on unix, Domain::unix().
Domains == {AF_INET, AF_INET6} \cup (IF IsUnix THEN {AF_UNIX} ELSE {})
\* Option<Protocol>: None or Some(Protocol::tcp()).
Protocols == {"none", "tcp"}

\* What the kernel answers to socket(family, ty, protocol) / WSASocketW: a
\* new handle, or an error.
SocketOutcomes(family, protocol) ==
    IF family = AF_UNIX /\ protocol = IPPROTO_TCP
    THEN {EPROTONOSUPPORT}
    ELSE (IF nextHandle <= MaxHandles THEN {NoError} ELSE {}) \cup {EMFILE}

\* What a later native call on an open handle answers.
CallOutcomes == {NoError, EIO}

----------------------------------------------------------------------------
(* Initial state: nothing allocated, no thread inside Socket::new.         *)

Init ==
    /\ platform \in Platforms
    /\ layout \in LifecycleLayouts
    /\ handles = [h \in HandleIds |-> FreeHandle]
    /\ nextHandle = 1
    /\ pc = [t \in Threads |-> "idle"]
    /\ loc = [t \in Threads |-> NoLoc]
    /\ owners = {}
    /\ once = "incomplete"
    /\ initRuns = 0
    /\ wsaStarted = FALSE
    /\ inherited = FALSE
    /\ addr = NoAddr
    /\ op = Op("none", 0, "", NoError)
    /\ trace = <<>>

\* Variables no step of Socket::new touches.
NewFrame == UNCHANGED <<platform, layout, owners, inherited, addr>>
OnceFrame == UNCHANGED <<once, initRuns, wsaStarted>>

\* Socket::new returns Err(e): the locals go out of scope.  `fd` is a plain
\* integer, so nothing is run for it.
ReturnErr(t, name, call, h, e) ==
    /\ pc' = [pc EXCEPT ![t] = "idle"]
    /\ loc' = [loc EXCEPT ![t] = NoLoc]
    /\ op' = Op(name, h, "err", e)
    /\ trace' = <<Call(call, h, -1, e)>>

\* Socket::new returns Ok(Self::from_raw_fd(fd)), which the facade wraps:
\* a Socket value owning the handle now exists.
ReturnOk(t, name, call, h) ==
    /\ pc' = [pc EXCEPT ![t] = "idle"]
    /\ loc' = [loc EXCEPT ![t] = NoLoc]
    /\ owners' = owners \cup {[kind |-> "Socket", h |-> h]}
    /\ op' = Op(name, h, "ok", NoError)
    /\ trace' = <<Call(call, h, 0, NoError)>>

\* A faulty creation on linux: socket(family, ty, protocol) without
\* SOCK_CLOEXEC.
LinuxSocketFlagsPlain == {}
\* The flags socket(2) is called with on linux: ty | SOCK_CLOEXEC.
LinuxSocketFlags == {"SOCK_CLOEXEC"}

\* The handle a successful native creation call returns.
NewHandle(fdflags) ==
    [state |-> "open", fdflags |-> fdflags,
     flflags |-> IF IsUnix THEN {"O_RDWR"} ELSE {},
     nosigpipe |-> FALSE, closes |-> 0]

\* unix Socket::new, first step: the facade's protocol argument and
\* libc::socket(family, ty [| SOCK_CLOEXEC], protocol).error()?
New_socket(t) ==
    /\ IsUnix
    /\ pc[t] = "idle"
    /\ \E family \in Domains, p \in Protocols :
        \E out \in SocketOutcomes(family, ProtocolArg(p)) :
            LET flags == IF platform = "linux" THEN LinuxSocketFlags ELSE {}
                h == nextHandle
            IN  IF out = NoError
                THEN /\ handles' = [handles EXCEPT ![h] = NewHandle(
                            IF "SOCK_CLOEXEC" \in flags THEN {"FD_CLOEXEC"} ELSE {})]
                     /\ nextHandle' = nextHandle + 1
                     /\ loc' = [loc EXCEPT ![t].fd = h]
                     /\ pc' = [pc EXCEPT ![t] =
                            IF platform = "linux" THEN "getfl" ELSE "getfd"]
                     /\ op' = Op("Socket::new", h, "", NoError)
                     /\ trace' = <<Call("socket", h, h, NoError)>>
                     /\ UNCHANGED owners
                ELSE /\ ReturnErr(t, "Socket::new", "socket", 0, out)
                     /\ UNCHANGED <<handles, nextHandle, owners>>
    /\ UNCHANGED <<platform, layout, inherited, addr>>
    /\ OnceFrame

\* let flags = libc::fcntl(fd, F_GETFD).error()? | FD_CLOEXEC;
FdFlagsToSet(read) == read \cup {"FD_CLOEXEC"}

New_getfd(t) ==
    /\ pc[t] = "getfd"
    /\ \E out \in CallOutcomes :
        LET h == loc[t].fd
        IN  IF out = NoError
            THEN /\ loc' = [loc EXCEPT ![t].flags = FdFlagsToSet(handles[h].fdflags)]
                 /\ pc' = [pc EXCEPT ![t] = "setfd"]
                 /\ op' = Op("Socket::new", h, "", NoError)
                 /\ trace' = <<Call("fcntl(F_GETFD)", h, 0, NoError)>>
            ELSE ReturnErr(t, "Socket::new", "fcntl(F_GETFD)", h, out)
    /\ UNCHANGED <<handles, nextHandle>>
    /\ NewFrame /\ OnceFrame

\* libc::fcntl(fd, F_SETFD, flags).error()?
New_setfd(t) ==
    /\ pc[t] = "setfd"
    /\ \E out \in CallOutcomes :
        LET h == loc[t].fd
        IN  IF out = NoError
            THEN /\ handles' = [handles EXCEPT ![h].fdflags = loc[t].flags]
                 /\ pc' = [pc EXCEPT ![t] =
                        IF platform = "macos" THEN "nosigpipe" ELSE "getfl"]
                 /\ loc' = [loc EXCEPT ![t].flags = {}]
                 /\ op' = Op("Socket::new", h, "", NoError)
                 /\ trace' = <<Call("fcntl(F_SETFD)", h, 0, NoError)>>
            ELSE /\ ReturnErr(t, "Socket::new", "fcntl(F_SETFD)", h, out)
                 /\ UNCHANGED handles
    /\ UNCHANGED nextHandle
    /\ NewFrame /\ OnceFrame

\* macos, ios: libc::setsockopt(fd, SOL_SOCKET, SO_NOSIGPIPE, &1, 4).error()?
New_nosigpipe(t) ==
    /\ pc[t] = "nosigpipe"
    /\ \E out \in CallOutcomes :
        LET h == loc[t].fd
        IN  IF out = NoError
            THEN /\ handles' = [handles EXCEPT ![h].nosigpipe = TRUE]
                 /\ pc' = [pc EXCEPT ![t] = "getfl"]
                 /\ op' = Op("Socket::new", h, "", NoError)
                 /\ trace' = <<Call("setsockopt(SO_NOSIGPIPE)", h, 0, NoError)>>
                 /\ UNCHANGED loc
            ELSE /\ ReturnErr(t, "Socket::new", "setsockopt(SO_NOSIGPIPE)", h, out)
                 /\ UNCHANGED handles
    /\ UNCHANGED nextHandle
    /\ NewFrame /\ OnceFrame

\* A faulty non-blocking step: the flags are written back as they were read.
FlFlagsToSetPlain(read) == read
\* let flags = libc::fcntl(fd, F_GETFL).error()? | O_NONBLOCK;
FlFlagsToSet(read) == read \cup {"O_NONBLOCK"}

New_getfl(t) ==
    /\ pc[t] = "getfl"
    /\ \E out \in CallOutcomes :
        LET h == loc[t].fd
        IN  IF out = NoError
            THEN /\ loc' = [loc EXCEPT ![t].flags = FlFlagsToSet(handles[h].flflags)]
                 /\ pc' = [pc EXCEPT ![t] = "setfl"]
                 /\ op' = Op("Socket::new", h, "", NoError)
                 /\ trace' = <<Call("fcntl(F_GETFL)", h, 0, NoError)>>
            ELSE ReturnErr(t, "Socket::new", "fcntl(F_GETFL)", h, out)
    /\ UNCHANGED <<handles, nextHandle>>
    /\ NewFrame /\ OnceFrame

\* libc::fcntl(fd, F_SETFL, flags).error()?; Ok(Self::from_raw_fd(fd))
New_setfl(t) ==
    /\ pc[t] = "setfl"
    /\ \E out \in CallOutcomes :
        LET h == loc[t].fd
        IN  IF out = NoError
            THEN /\ handles' = [handles EXCEPT ![h].flflags = loc[t].flags]
                 /\ ReturnOk(t, "Socket::new", "fcntl(F_SETFL)", h)
            ELSE /\ ReturnErr(t, "Socket::new", "fcntl(F_SETFL)", h, out)
                 /\ UNCHANGED <<handles, owners>>
    /\ UNCHANGED <<nextHandle, platform, layout, inherited, addr>>
    /\ OnceFrame

----------------------------------------------------------------------------
(* windows: init() and Socket::new (windows.rs 28-74).                     *)

\* A faulty guard (a plain flag instead of a Once): a caller that finds the
\* body running does not wait for it.
CallOnceNoWait(state) ==
    CASE state = "incomplete" -> [once |-> "running", pc |-> "init_body"]
      [] state = "running" -> [once |-> "running", pc |-> "wsasocket"]
      [] OTHER -> [once |-> state, pc |-> "wsasocket"]

\* INIT.call_once(body), as the calling thread meets it: the first caller
\* runs the body, a caller that finds it running waits for it, a caller that
\* finds it complete goes on.
call_once(state) ==
    CASE state = "incomplete" -> [once |-> "running", pc |-> "init_body"]
      [] state = "running" -> [once |-> "running", pc |-> "init_wait"]
      [] OTHER -> [once |-> state, pc |-> "wsasocket"]

\* windows Socket::new, first step: init().  The arguments are not looked
\* at before WSASocketW, where the model draws them.
New_init(t) ==
    /\ platform = "windows"
    /\ pc[t] = "idle"
    /\ loc' = [loc EXCEPT ![t] = NoLoc]
    /\ once' = call_once(once).once
    /\ pc' = [pc EXCEPT ![t] = call_once(once).pc]
    /\ op' = Op("Socket::new", 0, "", NoError)
    /\ trace' = <<>>
    /\ UNCHANGED <<handles, nextHandle, initRuns, wsaStarted>>
    /\ NewFrame

\* The body of call_once: UdpSocket::bind("127.0.0.1:34254"), whose result
\* is dropped at once.  The standard library initialises winsock on the way;
\* the dummy socket it may have opened is closed again by the drop.
Init_body(t) ==
    /\ pc[t] = "init_body"
    /\ wsaStarted' = TRUE
    /\ initRuns' = initRuns + 1
    /\ pc' = [pc EXCEPT ![t] = "init_done"]
    /\ op' = Op("init", 0, "", NoError)
    /\ trace' = <<>>
    /\ UNCHANGED <<handles, nextHandle, loc, once>>
    /\ NewFrame

\* call_once returns in the thread that ran the body: the Once is complete.
Init_done(t) ==
    /\ pc[t] = "init_done"
    /\ once' = "complete"
    /\ pc' = [pc EXCEPT ![t] = "wsasocket"]
    /\ op' = Op("init", 0, "", NoError)
    /\ trace' = <<>>
    /\ UNCHANGED <<handles, nextHandle, loc, initRuns, wsaStarted>>
    /\ NewFrame

\* call_once returns in a thread that waited for the body to complete.
Init_wait(t) ==
    /\ pc[t] = "init_wait"
    /\ once = "complete"
    /\ pc' = [pc EXCEPT ![t] = "wsasocket"]
    /\ op' = Op("init", 0, "", NoError)
    /\ trace' = <<>>
    /\ UNCHANGED <<handles, nextHandle, loc, once, initRuns, wsaStarted>>
    /\ NewFrame

\* WSASocketW(family, ty, protocol, null, 0, WSA_FLAG_OVERLAPPED); a socket
\* handle is inheritable when it is created.  INVALID_SOCKET returns
\* Err(last_error()).
New_wsasocket(t) ==
    /\ pc[t] = "wsasocket"
    /\ \E family \in Domains, p \in Protocols :
       \E out \in (IF wsaStarted
                   THEN SocketOutcomes(family, ProtocolArg(p))
                   ELSE {WSANOTINITIALISED}) :
        LET h == nextHandle
        IN  IF out = NoError
            THEN /\ handles' = [handles EXCEPT ![h] =
                        NewHandle({"HANDLE_FLAG_INHERIT"})]
                 /\ nextHandle' = nextHandle + 1
                 /\ loc' = [loc EXCEPT ![t].fd = h]
                 /\ pc' = [pc EXCEPT ![t] = "noinherit"]
                 /\ op' = Op("Socket::new", h, "", NoError)
                 /\ trace' = <<Call("WSASocketW", h, h, NoError)>>
            ELSE /\ ReturnErr(t, "Socket::new", "WSASocketW", 0, out)
                 /\ UNCHANGED <<handles, nextHandle>>
    /\ NewFrame /\ OnceFrame

\* SetHandleInformation(handle, mask, flags): the flags under the mask are
\* replaced.
SetHandleInformation(old, mask, flags) == (old \ mask) \cup (flags \cap mask)

\* if SetHandleInformation(socket, HANDLE_FLAG_INHERIT, 0) == 0 { return Err }
New_noinherit(t) ==
    /\ pc[t] = "noinherit"
    /\ \E out \in CallOutcomes :
        LET h == loc[t].fd
        IN  IF out = NoError
            THEN /\ handles' = [handles EXCEPT ![h].fdflags =
                        SetHandleInformation(@, {"HANDLE_FLAG_INHERIT"}, {})]
                 /\ pc' = [pc EXCEPT ![t] = "fionbio"]
                 /\ op' = Op("Socket::new", h, "", NoError)
                 /\ trace' = <<Call("SetHandleInformation", h, 1, NoError)>>
                 /\ UNCHANGED loc
            ELSE /\ pc' = [pc EXCEPT ![t] = "idle"]
                 /\ loc' = [loc EXCEPT ![t] = NoLoc]
                 /\ op' = Op("Socket::new", h, "err", out)
                 /\ trace' = <<Call("SetHandleInformation", h, 0, out)>>
                 /\ UNCHANGED handles
    /\ UNCHANGED nextHandle
    /\ NewFrame /\ OnceFrame

\* if ioctlsocket(socket, FIONBIO, &mut 1) != 0 { return Err };
\* Ok(Socket::from_raw_socket(socket))
New_fionbio(t) ==
    /\ pc[t] = "fionbio"
    /\ \E out \in CallOutcomes :
        LET h == loc[t].fd
        IN  IF out = NoError
            THEN /\ handles' = [handles EXCEPT ![h].flflags = @ \cup {"FIONBIO"}]
                 /\ ReturnOk(t, "Socket::new", "ioctlsocket(FIONBIO)", h)
            ELSE /\ ReturnErr(t, "Socket::new", "ioctlsocket(FIONBIO)", h, out)
                 /\ UNCHANGED <<handles, owners>>
    /\ UNCHANGED <<nextHandle, platform, layout, inherited, addr>>
    /\ OnceFrame

----------------------------------------------------------------------------
(* connect, extraction, conversion and teardown.                           *)

Sockets == {o \in owners : o.kind = "Socket"}
Streams == {o \in owners : o.kind # "Socket"}

\* What the kernel answers to connect on a non-blocking handle: done, not
\* done yet (WouldBlock), or any other error code of the platform
\* (refused, already connected, wrong protocol type, a family it does not
\* know in the address bytes, no such path, ...).
WouldBlock == {EINPROGRESS, EAGAIN}
HardErrors == Errnos \ WouldBlock
ConnectOutcomes == {NoError} \cup WouldBlock \cup HardErrors

\* A faulty connect: on would-block it calls connect again and reports the
\* second call's success.
ConnectRetrying(h, a, out) ==
    LET ret == IF out = NoError THEN 0 ELSE -1
        again == out \in WouldBlock
        err == IF IsUnix THEN ToError(ret, out) ELSE (IF ret = 0 THEN NoError ELSE out)
    IN  [trace |-> IF again
                   THEN <<ConnectCall(h, a, ret, out), ConnectCall(h, a, 0, NoError)>>
                   ELSE <<ConnectCall(h, a, ret, IF ret = 0 THEN NoError ELSE out)>>,
         result |-> IF err = NoError \/ again THEN "ok" ELSE "err",
         err |-> IF again THEN NoError ELSE err]

\* sys::Socket::connect(&self, addr): one native connect with the address
\* pointer and length; unix maps the return through ToError, windows
\* compares it with 0 and takes last_error().  `out` is the kernel's answer.
connect(h, a, out) ==
    LET ret == IF out = NoError THEN 0 ELSE -1
        err == IF IsUnix THEN ToError(ret, out) ELSE (IF ret = 0 THEN NoError ELSE out)
    IN  [trace |-> <<ConnectCall(h, a, ret, IF ret = 0 THEN NoError ELSE out)>>,
         result |-> IF err = NoError THEN "ok" ELSE "err",
         err |-> err]

ValueFrame ==
    UNCHANGED <<platform, layout, nextHandle, pc, loc, once, initRuns,
                wsaStarted, inherited>>

\* Socket::connect(&self, addr: impl Into<Addr>) with a SocketAddr,
\* SocketAddrV4 or SocketAddrV6: addr.into(), then the native connect.
ConnectEndpoint(s, a) ==
    /\ s \in Sockets
    /\ LET into == AddrFromSocketAddr(a)
       IN  \E out \in ConnectOutcomes :
            LET r == connect(s.h, into, out)
            IN  /\ op' = OpArg("connect", s.h, r.result, r.err, into)
                /\ trace' = r.trace
    /\ UNCHANGED <<handles, owners, addr>>
    /\ ValueFrame

\* Socket::connect with the Addr the caller holds; the Addr is moved in.
ConnectAddr(s) ==
    /\ s \in Sockets
    /\ addr.tag = "ok"
    /\ \E out \in ConnectOutcomes :
        LET r == connect(s.h, addr, out)
        IN  /\ op' = OpArg("connect", s.h, r.result, r.err, addr)
            /\ trace' = r.trace
    /\ addr' = NoAddr
    /\ UNCHANGED <<handles, owners>>
    /\ ValueFrame

\* The native close / closesocket.
Close(hs, h) == [hs EXCEPT ![h].state = "closed", ![h].closes = @ + 1]

\* impl Drop for Socket: one close, its result ignored.
DropSocket(s) ==
    /\ s \in Sockets
    /\ handles' = Close(handles, s.h)
    /\ owners' = owners \ {s}
    /\ op' = Op("drop(Socket)", s.h, "", NoError)
    /\ trace' = <<Call("close", s.h, 0, NoError)>>
    /\ UNCHANGED addr
    /\ ValueFrame

\* into_raw_fd / into_raw_socket: read the handle, forget self.  What the
\* extraction does to the kernel table and which native calls it issues.

into_raw_fd(h) == [handles |-> handles, trace |-> <<>>]

\* impl From<Socket> for TcpStream:
\* TcpStream::from_raw_fd(socket.into_raw_fd()).
IntoTcpStream(s) ==
    /\ s \in Sockets
    /\ handles' = into_raw_fd(s.h).handles
    /\ trace' = into_raw_fd(s.h).trace
    /\ owners' = (owners \ {s}) \cup {[kind |-> "TcpStream", h |-> s.h]}
    /\ op' = Op("into(TcpStream)", s.h, "", NoError)
    /\ UNCHANGED addr
    /\ ValueFrame

\* unix: impl From<Socket> for UnixStream.
IntoUnixStream(s) ==
    /\ IsUnix
    /\ s \in Sockets
    /\ handles' = into_raw_fd(s.h).handles
    /\ trace' = into_raw_fd(s.h).trace
    /\ owners' = (owners \ {s}) \cup {[kind |-> "UnixStream", h |-> s.h]}
    /\ op' = Op("into(UnixStream)", s.h, "", NoError)
    /\ UNCHANGED addr
    /\ ValueFrame

\* The stream type made by from_raw_fd owns the handle; its teardown closes
\* it.
DropStream(st) ==
    /\ st \in Streams
    /\ handles' = Close(handles, st.h)
    /\ owners' = owners \ {st}
    /\ op' = Op("drop(stream)", st.h, "", NoError)
    /\ trace' = <<Call("close", st.h, 0, NoError)>>
    /\ UNCHANGED addr
    /\ ValueFrame

\* Addr::unix(path) called by the holder of `addr`.
MakeAddrUnix(p) ==
    /\ IsUnix
    /\ addr' = AddrUnix(p)
    /\ op' = OpArg("Addr::unix", 0, addr'.tag, NoError, p)
    /\ trace' = <<>>
    /\ UNCHANGED <<handles, owners>>
    /\ ValueFrame

\* Addr::from(SocketAddr) called by the holder of `addr`.
MakeAddrFrom(a) ==
    /\ addr' = AddrFromSocketAddr(a)
    /\ op' = OpArg("Addr::from", 0, addr'.tag, NoError, a)
    /\ trace' = <<>>
    /\ UNCHANGED <<handles, owners>>
    /\ ValueFrame

\* Another thread of the process forks and execs a child: the child holds
\* every handle that is open and inheritable at that moment.
ForkExec ==
    /\ inherited' = (inherited \/ \E h \in HandleIds : IsOpen(h) /\ Inheritable(h))
    /\ op' = Op("fork_exec", 0, "", NoError)
    /\ trace' = <<>>
    /\ UNCHANGED <<platform, layout, handles, nextHandle, pc, loc, owners,
                   once, initRuns, wsaStarted, addr>>

Next ==
    \/ \E t \in Threads : New_socket(t)
    \/ \E t \in Threads : New_getfd(t)
    \/ \E t \in Threads : New_setfd(t)
    \/ \E t \in Threads : New_nosigpipe(t)
    \/ \E t \in Threads : New_getfl(t)
    \/ \E t \in Threads : New_setfl(t)
    \/ \E t \in Threads : New_init(t)
    \/ \E t \in Threads : Init_body(t)
    \/ \E t \in Threads : Init_done(t)
    \/ \E t \in Threads : Init_wait(t)
    \/ \E t \in Threads : New_wsasocket(t)
    \/ \E t \in Threads : New_noinherit(t)
    \/ \E t \in Threads : New_fionbio(t)
    \/ \E s \in owners : DropSocket(s)
    \/ \E s \in owners : IntoTcpStream(s)
    \/ \E s \in owners : IntoUnixStream(s)
    \/ \E st \in owners : DropStream(st)
    \/ ForkExec

\* The socket lifecycle: creation by concurrent threads, conversion,
\* teardown, and a thread that forks and execs.
Spec == Init /\ [][Next]_vars

\* The state one successful Socket::new leaves behind (a state Spec
\* reaches): the caller holds one Socket and no Addr yet.
OneSocket ==
    /\ handles = [h \in HandleIds |->
            IF h = 1
            THEN [state |-> "open",
                  fdflags |-> IF IsUnix THEN {"FD_CLOEXEC"} ELSE {},
                  flflags |-> IF IsUnix THEN {"O_RDWR", "O_NONBLOCK"}
                                        ELSE {"FIONBIO"},
                  nosigpipe |-> platform = "macos", closes |-> 0]
            ELSE FreeHandle]
    /\ nextHandle = 2
    /\ pc = [t \in Threads |-> "idle"]
    /\ loc = [t \in Threads |-> NoLoc]
    /\ owners = {[kind |-> "Socket", h |-> 1]}
    /\ once = IF IsUnix THEN "incomplete" ELSE "complete"
    /\ initRuns = IF IsUnix THEN 0 ELSE 1
    /\ wsaStarted = ~IsUnix
    /\ inherited = FALSE
    /\ addr = NoAddr

InitAddr ==
    /\ platform \in Platforms
    /\ layout \in Layouts
    /\ OneSocket
    /\ op = Op("none", 0, "", NoError)
    /\ trace = <<>>

NextAddr ==
    \/ \E p \in Paths : MakeAddrUnix(p)
    \/ \E a \in SocketAddrs : MakeAddrFrom(a)

\* The address encoder: the caller builds addresses from every input, under
\* every layout of the standard library's address types.
SpecAddr == InitAddr /\ [][NextAddr]_vars

InitConnect ==
    /\ platform \in Platforms
    /\ layout \in ConnectLayouts
    /\ OneSocket
    /\ op = Op("none", 0, "", NoError)
    /\ trace = <<>>

NextAddrConnect ==
    \/ \E p \in Paths : MakeAddrUnix(p)
    \/ \E a \in SocketAddrs : MakeAddrFrom(a)
    \/ \E s \in owners : ConnectAddr(s)

\* connect with an Addr: the owner of a Socket builds addresses and connects
\* with them, any number of times; the kernel answers each connect with
\* success or any error code.
SpecAddrConnect == InitConnect /\ [][NextAddrConnect]_vars

NextConnect ==
    \/ \E s \in owners, a \in ConnectAddrs : ConnectEndpoint(s, a)
    \/ \E s \in owners : DropSocket(s)

\* connect with an endpoint: the owner of a Socket connects to an endpoint,
\* any number of times, and drops the Socket.
SpecConnect == InitConnect /\ [][NextConnect]_vars

----------------------------------------------------------------------------
(* Properties.                                                             *)

\* The handles the kernel has handed out so far.
Allocated == 1..(nextHandle - 1)
OwnersOf(h) == {o \in owners : o.h = h}
\* The threads that are inside Socket::new holding handle h in `fd`.
CreatorsOf(h) == {t \in Threads : pc[t] # "idle" /\ loc[t].fd = h}
Conversions == {"into(TcpStream)", "into(UnixStream)"}

\* C1 (as claimed): a conversion issues no native call, no handle is closed
\* twice, a handle never has two live owners, a handle with a live owner is
\* open and was never closed, and once every value is torn down and no
\* creation is running every handle that was allocated has been closed
\* exactly once.
C1_EveryHandleClosedOnce ==
    /\ op.name \in Conversions => trace = <<>>
    /\ \A h \in HandleIds : handles[h].closes <= 1
    /\ \A h \in HandleIds : Cardinality(OwnersOf(h)) <= 1
    /\ \A o \in owners : IsOpen(o.h) /\ handles[o.h].closes = 0
    /\ (owners = {} /\ \A t \in Threads : pc[t] = "idle")
          => \A h \in Allocated : handles[h].closes = 1

\* C1, for the handles that reached a Socket value: the same, with "every
\* handle that was allocated" narrowed to every handle a successful creation
\* returned, which is one that is non-blocking and not inheritable (the
\* others are those of C2).  This part holds.
C1_OwnedHandlesClosedOnce ==
    /\ op.name \in Conversions => trace = <<>>
    /\ \A h \in HandleIds : handles[h].closes <= 1
    /\ \A h \in HandleIds : Cardinality(OwnersOf(h)) <= 1
    /\ \A o \in owners : IsOpen(o.h) /\ handles[o.h].closes = 0
    /\ \A h \in Allocated :
          (OwnersOf(h) = {} /\ CreatorsOf(h) = {} /\ ~Inheritable(h)
              /\ NonBlocking(h))
            => handles[h].closes = 1

\* C2 (as claimed): when Socket::new returns an error after the native
\* creation call succeeded, the handle is closed; no open handle is without
\* an owner or a creation in progress.
C2_FailedCreationClosesHandle ==
    /\ (op.name = "Socket::new" /\ op.result = "err" /\ op.h # 0)
          => ~IsOpen(op.h)
    /\ \A h \in HandleIds :
          IsOpen(h) => (OwnersOf(h) # {} \/ CreatorsOf(h) # {})

\* C3 (as claimed): on every platform, no handle is ever open and
\* inheritable, and no exec'ed child inherits a handle.
C3_NoInheritableWindow ==
    /\ \A h \in HandleIds : IsOpen(h) => ~Inheritable(h)
    /\ ~inherited

\* The positions of Socket::new between the native creation call and the
\* call that sets close-on-exec / clears the inherit flag.
FlagWindow == {"getfd", "setfd", "noinherit"}

\* C3 (amended): on linux no handle is ever open and inheritable and no
\* child inherits one.  On the other platforms a handle is open and
\* inheritable only before a value owns it, and a thread inside Socket::new
\* holds such a handle only between the native creation call and the call
\* that sets the flag.
C3_AtomicOnLinuxOnly ==
    /\ platform = "linux" =>
          (~inherited /\ \A h \in HandleIds : IsOpen(h) => ~Inheritable(h))
    /\ \A h \in HandleIds :
          (IsOpen(h) /\ Inheritable(h)) =>
              /\ OwnersOf(h) = {}
              /\ \A t \in CreatorsOf(h) : pc[t] \in FlagWindow

\* A fork/exec step taken on linux while a thread is inside Socket::new
\* with its handle allocated.
C3_Witness ==
    /\ platform = "linux"
    /\ op.name = "fork_exec"
    /\ \E t \in Threads : pc[t] \in {"getfl", "setfl"} /\ IsOpen(loc[t].fd)

\* C4: a socket that Socket::new returns is open, non-blocking and not
\* inheritable when it is returned; every live Socket is, whether or not
\* connect was called on it; and no handle is ever non-blocking while still
\* inheritable (the close-on-exec step precedes the non-blocking step).
C4_ReturnedSocketFlags ==
    /\ (op.name = "Socket::new" /\ op.result = "ok") =>
          /\ [kind |-> "Socket", h |-> op.h] \in owners
          /\ IsOpen(op.h) /\ NonBlocking(op.h) /\ ~Inheritable(op.h)
    /\ \A o \in Sockets : NonBlocking(o.h) /\ ~Inheritable(o.h)
    /\ \A h \in HandleIds : NonBlocking(h) => ~Inheritable(h)

\* Socket::new has just returned Ok on a platform that sets the two flags
\* by separate calls.
C4_Witness ==
    /\ op.name = "Socket::new" /\ op.result = "ok"
    /\ platform = "macos"
    /\ NonBlocking(op.h)

\* The condition under which the claim says Addr::unix fails.
PathRejected(p) ==
    \/ (Len(p) = 0 \/ p[1] # 0) /\ Len(p) >= SunPathLen
    \/ Len(p) > 0 /\ p[1] = 0 /\ Len(p) > SunPathLen

\* C5: Addr::unix(p) returns the invalid-input error exactly when p does
\* not start with NUL and is at least as long as sun_path, or starts with
\* NUL and is longer than sun_path; otherwise it returns an Addr made from
\* p.  The failing call issues no native call and leaves no Addr.
C5_UnixPathValidation ==
    op.name = "Addr::unix" =>
        /\ addr.tag \in {"ok", "err"}
        /\ addr.tag = "err" <=> PathRejected(op.arg)
        /\ addr.tag = "err" =>
              /\ addr.kind = "InvalidInput"
              /\ DOMAIN addr = {"tag", "kind", "msg"}
              /\ trace = <<>>
        /\ addr.tag = "ok" => addr.input = [kind |-> "unix", path |-> op.arg]

\* A path of exactly sun_path's length that does not start with NUL was
\* rejected.
C5_Witness ==
    /\ op.name = "Addr::unix"
    /\ Len(op.arg) = SunPathLen /\ op.arg[1] # 0
    /\ addr.tag = "err"

\* C6 (as claimed): for every accepted path p, the empty one included, the
\* length is offset + len(p) + (1 unless p starts with NUL), and for a p
\* that does not start with NUL the byte at offset + len(p) is a zero that
\* the length counts.
C6_UnixLengthAsClaimed ==
    (op.name = "Addr::unix" /\ addr.tag = "ok") =>
        LET p == op.arg
            abstract == Len(p) > 0 /\ p[1] = 0
        IN  /\ addr.len = SunPathOffset + Len(p) + (IF abstract THEN 0 ELSE 1)
            /\ ~abstract =>
                  /\ addr.len >= SunPathOffset + Len(p) + 1
                  /\ addr.storage[SunPathOffset + Len(p) + 1] = 0

\* C6 (amended): for every accepted non-empty path p the length is
\* offset + len(p) + (1 unless p starts with NUL); a non-empty p that does
\* not start with NUL is followed by a zero byte that the length counts, the
\* path bytes sit at the offset, and an abstract p has no byte counted after
\* it.  For the empty path the length is the offset alone: no terminator is
\* counted.
C6_UnixLength ==
    (op.name = "Addr::unix" /\ addr.tag = "ok") =>
        LET p == op.arg
            abstract == Len(p) > 0 /\ p[1] = 0
        IN  /\ Len(p) = 0 => addr.len = SunPathOffset
            /\ Len(p) > 0 =>
                  addr.len = SunPathOffset + Len(p) + (IF abstract THEN 0 ELSE 1)
            /\ \A i \in 1..Len(p) : addr.storage[SunPathOffset + i] = p[i]
            /\ (Len(p) > 0 /\ ~abstract) =>
                  addr.storage[SunPathOffset + Len(p) + 1] = 0
            /\ \A i \in 1..SockaddrStorageSize :
                  i > addr.len => addr.storage[i] = Uninit

\* Addr::unix accepted the empty path and counted no terminator.
C6_Witness ==
    /\ op.name = "Addr::unix"
    /\ op.arg = <<>>
    /\ addr.tag = "ok"
    /\ addr.len = SunPathOffset

\* C7 (as claimed): the Addr made from an IPv4 (IPv6) endpoint has the
\* length of sockaddr_in (sockaddr_in6) and its leading bytes are those of
\* that structure: family tag, port, address.
C7_IpAddrIsNativeStruct ==
    (op.name = "Addr::from" /\ addr.tag = "ok") =>
        LET native == IF op.arg.kind = "v4"
                      THEN NativeSockaddrIn(op.arg.e)
                      ELSE NativeSockaddrIn6(op.arg.e)
        IN  /\ addr.len = (IF op.arg.kind = "v4" THEN SockaddrInSize
                                                 ELSE SockaddrIn6Size)
            /\ \A i \in 1..Len(native) : addr.storage[i] = native[i]

\* C8: every Addr a constructor returns has a length, and a number of bytes
\* copied into its buffer, of at most the buffer's capacity, and no byte of
\* it was read from beyond the source structure; the native connect call is
\* handed the bytes and the length of the Addr that was passed to connect,
\* unchanged.
C8_LengthWithinStorage ==
    /\ addr.tag = "ok" =>
          /\ addr.len <= SockaddrStorageSize
          /\ addr.copied <= SockaddrStorageSize
          /\ addr.copied = addr.len
          /\ \A i \in DOMAIN addr.storage : addr.storage[i] # OutOfBounds
    /\ op.name = "connect" =>
          /\ op.arg.len <= SockaddrStorageSize
          /\ \A i \in 1..Len(trace) :
                /\ trace[i].len = op.arg.len
                /\ trace[i].bytes = op.arg.storage

\* The longest accepted unix path (an abstract one that fills sun_path) was
\* encoded and then passed to connect.
C8_Witness ==
    /\ op.name = "connect"
    /\ op.arg.input.kind = "unix"
    /\ Len(op.arg.input.path) = SunPathLen
    /\ op.arg.len = SockaddrUnSize

\* C9: a connect issues exactly one native connect call, on the Socket's
\* handle; it returns Ok exactly when that call returned 0 and otherwise the
\* error the call left, would-block included; afterwards the Socket still
\* owns the handle, which is open and was never closed.
C9_ConnectOnceNoRetry ==
    op.name = "connect" =>
        /\ Len(trace) = 1
        /\ trace[1].call = "connect" /\ trace[1].h = op.h
        /\ op.result = "ok" <=> trace[1].ret = 0
        /\ op.result # "ok" => (op.result = "err" /\ op.err = trace[1].err)
        /\ op.result = "ok" => op.err = NoError
        /\ [kind |-> "Socket", h |-> op.h] \in owners
        /\ IsOpen(op.h) /\ handles[op.h].closes = 0

\* connect returned the would-block indication as an error.
C9_Witness ==
    /\ op.name = "connect"
    /\ op.result = "err" /\ op.err \in WouldBlock
    /\ Len(trace) = 1

\* The positions of the windows Socket::new after init() has returned.
AfterInit == {"wsasocket", "noinherit", "fionbio"}

\* C10: on windows the body of the initialisation runs at most once, and
\* exactly once before any thread is past init(); while it is running only
\* the thread that runs it is inside it and no thread is past init(); a
\* native creation call is only issued with winsock initialised.
C10_InitOnce ==
    /\ initRuns <= 1
    /\ Cardinality({t \in Threads : pc[t] \in {"init_body", "init_done"}}) <= 1
    /\ once = "running" <=> \E t \in Threads : pc[t] \in {"init_body", "init_done"}
    /\ \A t \in Threads :
          pc[t] \in AfterInit =>
              once = "complete" /\ initRuns = 1 /\ wsaStarted
    /\ (platform = "windows" /\ nextHandle > 1) => (once = "complete" /\ initRuns = 1)
    /\ \A i \in 1..Len(trace) :
          trace[i].call = "WSASocketW" =>
              wsaStarted /\ once = "complete" /\ trace[i].err # WSANOTINITIALISED

\* One thread is running the body while another has arrived and waits.
C10_Witness ==
    /\ platform = "windows"
    /\ \E t1, t2 \in Threads :
          pc[t1] = "init_body" /\ pc[t2] = "init_wait"

=============================================================================
